---- MODULE Spec2Model ----
(***************************************************************************)
(* BLE rotary-encoder peripheral (src/old.c): the GATT server callbacks,   *)
(* the GAP callback and the polling main loop, each run as one step.       *)
(*                                                                         *)
(* The stack delivers events in any order: the handlers of src/old.c place *)
(* no condition on the state an event arrives in, and none is added here.  *)
(* The LED outputs (set_led_color) are written and never read back: they   *)
(* are left out, as are the log lines.                                     *)
(***************************************************************************)
EXTENDS Integers, Sequences, FiniteSets, TLC

(***************************************************************************)
(* Program constants (src/old.c)                                           *)
(***************************************************************************)
RESET_AT == 0
GREEN_ZONE_MIN == -5
GREEN_ZONE_MAX == 5
YELLOW_ZONE_MIN == -10
YELLOW_ZONE_MAX == 10
GATTS_NUM_HANDLE == 4
CHAR_VALUE_MAX_LEN == 20
\* length of the queue rotary_encoder_create_queue makes
EVENT_QUEUE_LENGTH == 1

ZONE_GREEN == 0
ZONE_YELLOW == 1
ZONE_RED == 2
\* static encoder_zone_t previous_zone = -1
ZONE_INVALID == -1

(***************************************************************************)
(* Bounds of the model                                                     *)
(***************************************************************************)
\* encoder positions range over 0..MaxPos: the three zones and both
\* boundaries between them
MaxPos == 11
\* the history counters stop counting here
MaxCount == 2

Positions == 0..MaxPos

\* interface references and connection identifiers the stack hands out
\* one application is registered (esp_ble_gatts_app_register), so every
\* event carries the one interface the stack gave it
GattsIfs == {3}
ConnIds == {0, 1}
\* the connection and transaction a read or write request comes on, which
\* the handlers only pass back in the response
ReqConnIds == {1}
TransIds == {7}

\* the handle tables a table-created event may carry
ZeroTable == [i \in 0..(GATTS_NUM_HANDLE - 1) |-> 0]
HandleTables == {[i \in 0..(GATTS_NUM_HANDLE - 1) |-> 40 + i],
                 [i \in 0..(GATTS_NUM_HANDLE - 1) |-> 50 + i]}
\* attribute handles a write may name: the descriptor handles of the two
\* tables above (each is the CCCD of one table and not of the other)
AttrHandles == {43, 53}
ReadHandles == {42, 43}
NumHandles == {GATTS_NUM_HANDLE - 1, GATTS_NUM_HANDLE}
GattStatuses == {"ESP_GATT_OK", "ESP_GATT_ERROR"}
\* param->adv_data_raw_cmpl.status
BtStatuses == {"ESP_BT_STATUS_SUCCESS", "ESP_BT_STATUS_FAIL"}
\* what esp_ble_gatts_send_indicate may return
StackRets == {"ESP_OK", "ESP_FAIL"}

\* written values: C index i is sequence index i + 1
\* the length of a CCCD value, the longest length accepted and the first
\* one refused
WriteLens == {2, CHAR_VALUE_MAX_LEN, CHAR_VALUE_MAX_LEN + 1}
\* 0x0001, 0x0000 and 0x0100 in two bytes; 0x01 then zeros otherwise
WriteValues(len) ==
    IF len = 2 THEN {<<1, 0>>, <<0, 0>>, <<0, 1>>}
    ELSE {[i \in 1..len |-> IF i = 1 THEN 1 ELSE 0]}
\* the write events: param->write of ESP_GATTS_WRITE_EVT
WriteParams ==
    UNION {{[conn_id |-> c, trans_id |-> t, handle |-> h, len |-> len,
             value |-> v, need_rsp |-> r] :
              c \in ReqConnIds, t \in TransIds, h \in AttrHandles,
              v \in WriteValues(len), r \in BOOLEAN} : len \in WriteLens}

VARIABLES
    connection_established,
    notifications_enabled,
    ble_service_started,
    gatt_handle_table,
    char_value_buffer,
    notify_conn_id,
    notify_gatts_if,
    previous_zone,
    position,            \* the encoder driver's info.state.position
    event_queue,         \* positions of the queued encoder events
    prev_button_pressed,
    calls,               \* the stack requests issued by the last step
    ret,                 \* what poll_encoder_state got from send_ble_notification
                         \* in the last step; "NO_CHANGE" if it polled and did not
                         \* call it, "NONE" if the step did not poll
    peer,                \* the latest connect event, until a disconnect event
    runZone,             \* zone of the latest polled sample
    runAttempts,         \* notify calls over the latest polls that sampled runZone
    runFrames,           \* frames handed to the stack over those polls
    pc,                  \* where the main loop stands: "loop" between two
                         \* iterations, "send" inside send_ble_notification
                         \* between its checks and its transmit call
    send_value           \* the value send_ble_notification was given, while
                         \* the main loop stands inside it

tracker == <<connection_established, notifications_enabled, notify_conn_id, notify_gatts_if>>
gatt == <<ble_service_started, gatt_handle_table, char_value_buffer>>
encoder == <<position, event_queue, prev_button_pressed>>
history == <<peer, runZone, runAttempts, runFrames>>
mainloop == <<pc, send_value>>
vars == <<tracker, gatt, previous_zone, encoder, mainloop, calls, ret, history>>

Min(a, b) == IF a < b THEN a ELSE b

(***************************************************************************)
(* Zone classification                                                     *)
(***************************************************************************)
\* mutant: the outer Yellow bound taken as exclusive
get_zone_for_position_strict(p) ==
    IF p >= GREEN_ZONE_MIN /\ p <= GREEN_ZONE_MAX THEN ZONE_GREEN
    ELSE IF \/ (p > GREEN_ZONE_MAX /\ p < YELLOW_ZONE_MAX)
            \/ (p < GREEN_ZONE_MIN /\ p > YELLOW_ZONE_MIN) THEN ZONE_YELLOW
    ELSE ZONE_RED

get_zone_for_position(p) ==
    IF p >= GREEN_ZONE_MIN /\ p <= GREEN_ZONE_MAX THEN ZONE_GREEN
    ELSE IF \/ (p > GREEN_ZONE_MAX /\ p <= YELLOW_ZONE_MAX)
            \/ (p < GREEN_ZONE_MIN /\ p >= YELLOW_ZONE_MIN) THEN ZONE_YELLOW
    ELSE ZONE_RED

\* mutant: the codes of Green and Yellow exchanged
notification_val_swapped(zone) ==
    IF zone = ZONE_GREEN THEN 3
    ELSE IF zone = ZONE_YELLOW THEN 2
    ELSE IF zone = ZONE_RED THEN 1
    ELSE 0

\* mutant: the switch has no case for Red
notification_val_no_red(zone) ==
    IF zone = ZONE_GREEN THEN 2
    ELSE IF zone = ZONE_YELLOW THEN 3
    ELSE 0

\* the switch of poll_encoder_state: notification_val starts 0x00
notification_val(zone) ==
    IF zone = ZONE_GREEN THEN 2
    ELSE IF zone = ZONE_YELLOW THEN 3
    ELSE IF zone = ZONE_RED THEN 1
    ELSE 0

(***************************************************************************)
(* send_ble_notification                                                   *)
(***************************************************************************)
InvalidArg(len) == len = 0 \/ len > CHAR_VALUE_MAX_LEN

\* mutant: not ready only when both flags are clear
NotReadyBoth == ~notifications_enabled /\ ~connection_established

NotReady == ~notifications_enabled \/ ~connection_established

\* mutant: a connection identifier of 0 is taken for none
HandlesNotReadyConnId ==
    notify_gatts_if = 0 \/ notify_conn_id = 0 \/ gatt_handle_table[2] = 0

HandlesNotReady == notify_gatts_if = 0 \/ gatt_handle_table[2] = 0

IndicateCall(value, len) ==
    [api |-> "esp_ble_gatts_send_indicate", gatts_if |-> notify_gatts_if,
     conn_id |-> notify_conn_id, attr_handle |-> gatt_handle_table[2],
     len |-> len, value |-> value, need_confirm |-> FALSE]

\* the value returned and the stack requests made; stack_ret is what the
\* stack answers if it is asked
send_ble_notification(value, len, stack_ret) ==
    IF InvalidArg(len) THEN [ret |-> "ESP_ERR_INVALID_ARG", calls |-> <<>>]
    ELSE IF NotReady THEN [ret |-> "ESP_ERR_INVALID_STATE", calls |-> <<>>]
    ELSE IF HandlesNotReady THEN [ret |-> "ESP_ERR_INVALID_STATE", calls |-> <<>>]
    ELSE [ret |-> stack_ret, calls |-> <<IndicateCall(<<value>>, len)>>]

(***************************************************************************)
(* Main loop                                                               *)
(***************************************************************************)
\* mutant: no comparison with previous_zone
ZoneChangedAlways(current_zone) == ble_service_started

\* mutant: a change is taken only where the neighbouring positions are in
\* the new zone too
ZoneChangedAwayFromBoundary(current_zone) ==
    /\ current_zone # previous_zone
    /\ ble_service_started
    /\ get_zone_for_position(position - 1) = current_zone
    /\ get_zone_for_position(position + 1) = current_zone

\* mutant: the comparison alone, without the service-started flag
ZoneChangedUngated(current_zone) == current_zone # previous_zone

ZoneChanged(current_zone) == current_zone # previous_zone /\ ble_service_started

ResetAtLimit(p) == RESET_AT # 0 /\ (p >= RESET_AT \/ p <= -RESET_AT)

\* handle_button_events: a press edge resets the encoder
ButtonResets(button_pressed) == button_pressed /\ ~prev_button_pressed

\* mutant: previous_zone is updated only after a successful send
poll_encoder_state_retry(stack_ret) ==
    LET current_zone == get_zone_for_position(position)
        changed == ZoneChanged(current_zone)
        sent == send_ble_notification(notification_val(current_zone), 1, stack_ret)
    IN [current_zone |-> current_zone,
        notified |-> changed,
        previous_zone |-> IF changed /\ sent.ret = "ESP_OK"
                          THEN current_zone ELSE previous_zone,
        calls |-> IF changed THEN sent.calls ELSE <<>>,
        ret |-> IF changed THEN sent.ret ELSE "NO_CHANGE"]

\* poll_encoder_state up to the reset check: the zone sampled, whether
\* notify was called, previous_zone afterwards, the stack requests made
\* and the value send_ble_notification returned
poll_encoder_state(stack_ret) ==
    LET current_zone == get_zone_for_position(position)
        changed == ZoneChanged(current_zone)
        sent == send_ble_notification(notification_val(current_zone), 1, stack_ret)
    IN [current_zone |-> current_zone,
        notified |-> changed,
        previous_zone |-> IF changed THEN current_zone ELSE previous_zone,
        calls |-> IF changed THEN sent.calls ELSE <<>>,
        ret |-> IF changed THEN sent.ret ELSE "NO_CHANGE"]

\* one iteration with the queue empty: poll_encoder_state, then
\* handle_button_events
MainLoopPoll(button_pressed, stack_ret) ==
    /\ pc = "loop"
    /\ event_queue = <<>>
    /\ LET polled == poll_encoder_state(stack_ret)
           same == polled.current_zone = runZone
       IN /\ previous_zone' = polled.previous_zone
          /\ calls' = polled.calls
          /\ ret' = polled.ret
          /\ runZone' = polled.current_zone
          /\ runAttempts' = Min(MaxCount, (IF polled.notified THEN 1 ELSE 0)
                                          + (IF same THEN runAttempts ELSE 0))
          /\ runFrames' = Min(MaxCount, Len(polled.calls)
                                        + (IF same THEN runFrames ELSE 0))
    /\ position' = IF ButtonResets(button_pressed) \/ ResetAtLimit(position)
                   THEN 0 ELSE position
    /\ prev_button_pressed' = button_pressed
    /\ UNCHANGED <<tracker, gatt, event_queue, peer, mainloop>>

\* mutant: the position of the event is classified and compared too
MainLoopEventClassifies(button_pressed) ==
    /\ pc = "loop"
    /\ event_queue # <<>>
    /\ event_queue' = Tail(event_queue)
    /\ position' = IF ButtonResets(button_pressed) THEN 0 ELSE position
    /\ prev_button_pressed' = button_pressed
    /\ calls' = <<>>
    /\ ret' = "NONE"
    /\ previous_zone' = IF ZoneChanged(get_zone_for_position(Head(event_queue)))
                        THEN get_zone_for_position(Head(event_queue))
                        ELSE previous_zone
    /\ UNCHANGED <<tracker, gatt, history, mainloop>>

\* one iteration with an event queued: process_encoder_event (LED and
\* log only), then handle_button_events
MainLoopEvent(button_pressed) ==
    /\ pc = "loop"
    /\ event_queue # <<>>
    /\ event_queue' = Tail(event_queue)
    /\ position' = IF ButtonResets(button_pressed) THEN 0 ELSE position
    /\ prev_button_pressed' = button_pressed
    /\ calls' = <<>>
    /\ ret' = "NONE"
    /\ UNCHANGED <<tracker, gatt, previous_zone, history, mainloop>>

\* the encoder driver: one detent either way, reported through the queue
\* (the newest event replaces the last one when the queue is full)
Rotate(delta) ==
    /\ position + delta \in Positions
    /\ position' = position + delta
    /\ event_queue' = IF Len(event_queue) < EVENT_QUEUE_LENGTH
                      THEN Append(event_queue, position + delta)
                      ELSE [event_queue EXCEPT ![EVENT_QUEUE_LENGTH] = position + delta]
    /\ calls' = <<>>
    /\ ret' = "NONE"
    /\ UNCHANGED <<tracker, gatt, previous_zone, prev_button_pressed, history,
                   mainloop>>

(***************************************************************************)
(* esp_gap_cb                                                              *)
(***************************************************************************)
StartAdvertisingCall == [api |-> "esp_ble_gap_start_advertising"]

\* a handler that only logs
LogOnly ==
    /\ calls' = <<>>
    /\ ret' = "NONE"
    /\ UNCHANGED <<tracker, gatt, previous_zone, encoder, mainloop, history>>

\* the status is logged and not tested
ESP_GAP_BLE_ADV_DATA_RAW_SET_COMPLETE_EVT(status) ==
    /\ calls' = <<StartAdvertisingCall>>
    /\ ret' = "NONE"
    /\ UNCHANGED <<tracker, gatt, previous_zone, encoder, mainloop, history>>

ESP_GAP_BLE_ADV_START_COMPLETE_EVT == LogOnly

ESP_GAP_BLE_ADV_STOP_COMPLETE_EVT == LogOnly

ESP_GAP_BLE_UPDATE_CONN_PARAMS_EVT == LogOnly

\* mutant: the default arm shares the code of the first arm
GapDefaultStartsAdvertising ==
    /\ calls' = <<StartAdvertisingCall>>
    /\ ret' = "NONE"
    /\ UNCHANGED <<tracker, gatt, previous_zone, encoder, mainloop, history>>

GapDefault == LogOnly

(***************************************************************************)
(* gatts_event_handler                                                     *)
(***************************************************************************)
ResponseCall(gatts_if, conn_id, trans_id, status, rsp) ==
    [api |-> "esp_ble_gatts_send_response", gatts_if |-> gatts_if,
     conn_id |-> conn_id, trans_id |-> trans_id, status |-> status, rsp |-> rsp]

ESP_GATTS_REG_EVT(gatts_if) ==
    /\ calls' = <<[api |-> "esp_ble_gatts_create_attr_tab", gatts_if |-> gatts_if,
                   max_nb_attr |-> GATTS_NUM_HANDLE, srvc_inst_id |-> 0]>>
    /\ ret' = "NONE"
    /\ UNCHANGED <<tracker, gatt, previous_zone, encoder, mainloop, history>>

\* mutant: the handle count is not checked
AttrTabRejectedByStatus(status, num_handle) == status # "ESP_GATT_OK"

\* the two early breaks of the table-created event
AttrTabRejected(status, num_handle) ==
    status # "ESP_GATT_OK" \/ num_handle # GATTS_NUM_HANDLE

\* mutant: the service is started before the handles are copied
CreatAttrTabStartsFirst(status, num_handle, handles) ==
    /\ IF AttrTabRejected(status, num_handle)
       THEN /\ calls' = <<>>
            /\ UNCHANGED gatt_handle_table
       ELSE /\ gatt_handle_table' = handles
            /\ calls' = <<[api |-> "esp_ble_gatts_start_service",
                           service_handle |-> gatt_handle_table[0]]>>
    /\ ret' = "NONE"
    /\ UNCHANGED <<tracker, ble_service_started, char_value_buffer,
                   previous_zone, encoder, mainloop, history>>

ESP_GATTS_CREAT_ATTR_TAB_EVT(status, num_handle, handles) ==
    /\ IF AttrTabRejected(status, num_handle)
       THEN /\ calls' = <<>>
            /\ UNCHANGED gatt_handle_table
       ELSE /\ gatt_handle_table' = handles
            /\ calls' = <<[api |-> "esp_ble_gatts_start_service",
                           service_handle |-> handles[0]]>>
    /\ ret' = "NONE"
    /\ UNCHANGED <<tracker, ble_service_started, char_value_buffer,
                   previous_zone, encoder, mainloop, history>>

\* mutant: the whole value buffer is returned
ReadRspBuffer(handle) ==
    [handle |-> handle, len |-> CHAR_VALUE_MAX_LEN,
     value |-> [i \in 1..CHAR_VALUE_MAX_LEN |-> char_value_buffer[i - 1]]]

\* rsp is zeroed, then handle, len = 1 and value[0] = 0x00 are set
ReadRsp(handle) == [handle |-> handle, len |-> 1, value |-> <<0>>]

ESP_GATTS_READ_EVT(gatts_if, conn_id, trans_id, handle) ==
    /\ calls' = <<ResponseCall(gatts_if, conn_id, trans_id, "ESP_GATT_OK",
                               <<ReadRsp(handle)>>)>>
    /\ ret' = "NONE"
    /\ UNCHANGED <<tracker, gatt, previous_zone, encoder, mainloop, history>>

ESP_GATTS_START_EVT(status) ==
    /\ ble_service_started' = TRUE
    /\ calls' = <<>>
    /\ ret' = "NONE"
    /\ UNCHANGED <<tracker, gatt_handle_table, char_value_buffer,
                   previous_zone, encoder, mainloop, history>>

ConnParams == [latency |-> 0, max_int |-> 32, min_int |-> 16, timeout |-> 400]

\* mutant: the connection identifier of the event is not stored
ConnectKeepsConnId(gatts_if, conn_id) ==
    /\ calls' = <<[api |-> "esp_ble_gap_update_conn_params", params |-> ConnParams]>>
    /\ notify_gatts_if' = gatts_if
    /\ connection_established' = TRUE
    /\ ret' = "NONE"
    /\ peer' = <<[gatts_if |-> gatts_if, conn_id |-> conn_id]>>
    /\ UNCHANGED <<notify_conn_id, notifications_enabled, gatt, previous_zone,
                   encoder, mainloop, runZone, runAttempts, runFrames>>

ESP_GATTS_CONNECT_EVT(gatts_if, conn_id) ==
    /\ calls' = <<[api |-> "esp_ble_gap_update_conn_params", params |-> ConnParams]>>
    /\ notify_conn_id' = conn_id
    /\ notify_gatts_if' = gatts_if
    /\ connection_established' = TRUE
    /\ ret' = "NONE"
    /\ peer' = <<[gatts_if |-> gatts_if, conn_id |-> conn_id]>>
    /\ UNCHANGED <<notifications_enabled, gatt, previous_zone, encoder, mainloop,
                   runZone, runAttempts, runFrames>>

\* mutant: the bound is off by one
WriteTooLongByTwo(len) == len > CHAR_VALUE_MAX_LEN + 1

WriteTooLong(len) == len > CHAR_VALUE_MAX_LEN

IsCccdWrite(handle, len) == handle = gatt_handle_table[3] /\ len = 2

\* mutant: the two bytes read in the other order
descr_value_big_endian(value) == (value[1] * 256 + value[2]) % 65536

\* value[1]<<8 | value[0], kept in 16 bits
descr_value(value) == (value[2] * 256 + value[1]) % 65536

\* notifications_enabled after a write that passed the length check
CccdWritten(handle, len, value) ==
    IF IsCccdWrite(handle, len)
    THEN IF descr_value(value) = 1 THEN TRUE
         ELSE IF descr_value(value) = 0 THEN FALSE
         ELSE notifications_enabled
    ELSE notifications_enabled

WriteResponse(gatts_if, write, status) ==
    IF write.need_rsp
    THEN <<ResponseCall(gatts_if, write.conn_id, write.trans_id, status, <<>>)>>
    ELSE <<>>

\* what the write arm assigns and requests
WriteEffect(gatts_if, write) ==
    IF WriteTooLong(write.len)
    THEN /\ calls' = WriteResponse(gatts_if, write, "ESP_GATT_INVALID_ATTR_LEN")
         /\ UNCHANGED notifications_enabled
    ELSE /\ notifications_enabled' =
               CccdWritten(write.handle, write.len, write.value)
         /\ calls' = WriteResponse(gatts_if, write, "ESP_GATT_OK")

\* what the write arm leaves alone
WriteFrame ==
    /\ ret' = "NONE"
    /\ UNCHANGED <<connection_established, notify_conn_id, notify_gatts_if,
                   gatt, previous_zone, encoder, mainloop, history>>

ESP_GATTS_WRITE_EVT(gatts_if, write) ==
    /\ WriteEffect(gatts_if, write)
    /\ WriteFrame

\* mutant: the disconnect arm puts previous_zone back to its startup value
DisconnectResetsZone ==
    /\ connection_established' = FALSE
    /\ notifications_enabled' = FALSE
    /\ notify_conn_id' = 0
    /\ notify_gatts_if' = 0
    /\ previous_zone' = ZONE_INVALID
    /\ calls' = <<StartAdvertisingCall>>
    /\ ret' = "NONE"
    /\ peer' = <<>>
    /\ UNCHANGED <<gatt, encoder, mainloop, runZone, runAttempts, runFrames>>

ESP_GATTS_DISCONNECT_EVT ==
    /\ connection_established' = FALSE
    /\ notifications_enabled' = FALSE
    /\ notify_conn_id' = 0
    /\ notify_gatts_if' = 0
    /\ calls' = <<StartAdvertisingCall>>
    /\ ret' = "NONE"
    /\ peer' = <<>>
    /\ UNCHANGED <<gatt, previous_zone, encoder, mainloop, runZone, runAttempts,
                   runFrames>>

GattsDefault == LogOnly

InitAt(p) ==
    /\ connection_established = FALSE
    /\ notifications_enabled = FALSE
    /\ ble_service_started = FALSE
    /\ gatt_handle_table = ZeroTable
    /\ char_value_buffer = [i \in 0..(CHAR_VALUE_MAX_LEN - 1) |-> 0]
    /\ notify_conn_id = 0
    /\ notify_gatts_if = 0
    /\ previous_zone = ZONE_INVALID
    /\ position = p
    /\ event_queue = <<>>
    /\ prev_button_pressed = FALSE
    /\ calls = <<>>
    /\ ret = "NONE"
    /\ peer = <<>>
    /\ runZone = ZONE_INVALID
    /\ runAttempts = 0
    /\ runFrames = 0
    /\ pc = "loop"
    /\ send_value = <<>>

\* app_main starts the loop with the encoder at rest
Init == InitAt(0)

Next ==
    \/ \E b \in BOOLEAN, r \in StackRets : MainLoopPoll(b, r)
    \/ \E b \in BOOLEAN : MainLoopEvent(b)
    \/ \E d \in {-1, 1} : Rotate(d)
    \/ \E g \in GattsIfs, w \in WriteParams : ESP_GATTS_WRITE_EVT(g, w)
    \/ \E st \in BtStatuses : ESP_GAP_BLE_ADV_DATA_RAW_SET_COMPLETE_EVT(st)
    \/ ESP_GAP_BLE_ADV_START_COMPLETE_EVT
    \/ ESP_GAP_BLE_ADV_STOP_COMPLETE_EVT
    \/ ESP_GAP_BLE_UPDATE_CONN_PARAMS_EVT
    \/ GapDefault
    \/ \E g \in GattsIfs : ESP_GATTS_REG_EVT(g)
    \/ \E st \in GattStatuses, n \in NumHandles, h \in HandleTables :
           ESP_GATTS_CREAT_ATTR_TAB_EVT(st, n, h)
    \/ \E g \in GattsIfs, c \in ReqConnIds, t \in TransIds, h \in ReadHandles :
           ESP_GATTS_READ_EVT(g, c, t, h)
    \/ \E st \in GattStatuses : ESP_GATTS_START_EVT(st)
    \/ \E g \in GattsIfs, c \in ConnIds : ESP_GATTS_CONNECT_EVT(g, c)
    \/ ESP_GATTS_DISCONNECT_EVT
    \/ GattsDefault

Spec == Init /\ [][Next]_vars

\* the while (1) of app_main: every iteration ends in vTaskDelay and the
\* next one follows
MainLoop ==
    \/ \E b \in BOOLEAN, r \in StackRets : MainLoopPoll(b, r)
    \/ \E b \in BOOLEAN : MainLoopEvent(b)

(***************************************************************************)
(* The main loop in two steps where it sends: stack events may come        *)
(* between the checks of send_ble_notification and its transmit call,      *)
(* which reads notify_gatts_if, notify_conn_id and the handle again         *)
(***************************************************************************)
\* an iteration with the queue empty, up to the transmit call if the zone
\* changed and the checks pass, to its end otherwise
MainLoopPollChecks(button_pressed) ==
    LET current_zone == get_zone_for_position(position)
        same == current_zone = runZone
    IN IF /\ ZoneChanged(current_zone)
          /\ ~InvalidArg(1)
          /\ ~NotReady
          /\ ~HandlesNotReady
       THEN /\ pc = "loop"
            /\ event_queue = <<>>
            /\ previous_zone' = current_zone
            /\ pc' = "send"
            /\ send_value' = <<notification_val(current_zone)>>
            /\ calls' = <<>>
            /\ ret' = "NONE"
            /\ runZone' = current_zone
            /\ runAttempts' = Min(MaxCount, 1 + (IF same THEN runAttempts ELSE 0))
            /\ runFrames' = IF same THEN runFrames ELSE 0
            /\ UNCHANGED <<tracker, gatt, encoder, peer>>
       ELSE MainLoopPoll(button_pressed, "ESP_OK")

\* the transmit call and the rest of the iteration
MainLoopTransmit(button_pressed, stack_ret) ==
    /\ pc = "send"
    /\ calls' = <<IndicateCall(send_value, Len(send_value))>>
    /\ ret' = stack_ret
    /\ runFrames' = Min(MaxCount, runFrames + 1)
    /\ position' = IF ButtonResets(button_pressed) \/ ResetAtLimit(position)
                   THEN 0 ELSE position
    /\ prev_button_pressed' = button_pressed
    /\ pc' = "loop"
    /\ send_value' = <<>>
    /\ UNCHANGED <<tracker, gatt, previous_zone, event_queue, peer, runZone,
                   runAttempts>>

\* the events of the stack, in any order
StackEvent ==
    \/ \E g \in GattsIfs, w \in WriteParams : ESP_GATTS_WRITE_EVT(g, w)
    \/ \E st \in BtStatuses : ESP_GAP_BLE_ADV_DATA_RAW_SET_COMPLETE_EVT(st)
    \/ ESP_GAP_BLE_ADV_START_COMPLETE_EVT
    \/ ESP_GAP_BLE_ADV_STOP_COMPLETE_EVT
    \/ ESP_GAP_BLE_UPDATE_CONN_PARAMS_EVT
    \/ GapDefault
    \/ \E g \in GattsIfs : ESP_GATTS_REG_EVT(g)
    \/ \E st \in GattStatuses, n \in NumHandles, h \in HandleTables :
           ESP_GATTS_CREAT_ATTR_TAB_EVT(st, n, h)
    \/ \E g \in GattsIfs, c \in ReqConnIds, t \in TransIds, h \in ReadHandles :
           ESP_GATTS_READ_EVT(g, c, t, h)
    \/ \E st \in GattStatuses : ESP_GATTS_START_EVT(st)
    \/ \E g \in GattsIfs, c \in ConnIds : ESP_GATTS_CONNECT_EVT(g, c)
    \/ ESP_GATTS_DISCONNECT_EVT
    \/ GattsDefault

NextInterleaved ==
    \/ \E b \in BOOLEAN : MainLoopPollChecks(b)
    \/ \E b \in BOOLEAN, r \in StackRets : MainLoopTransmit(b, r)
    \/ \E b \in BOOLEAN : MainLoopEvent(b)
    \/ \E d \in {-1, 1} : Rotate(d)
    \/ StackEvent

SpecInterleaved == Init /\ [][NextInterleaved]_vars

(***************************************************************************)
(* The classifier alone, applied once to each position of a range          *)
(***************************************************************************)
MaxClassify == 60
ClassifyPositions == (-MaxClassify)..MaxClassify

Classify ==
    /\ runZone = ZONE_INVALID
    /\ runZone' = get_zone_for_position(position)
    /\ UNCHANGED <<tracker, gatt, previous_zone, encoder, mainloop, calls, ret, peer,
                   runAttempts, runFrames>>

InitClassify == \E p \in ClassifyPositions : InitAt(p)

NextClassify == Classify

SpecClassify == InitClassify /\ [][NextClassify]_vars

(***************************************************************************)
(* The main loop, the encoder and the events of a connection, from the     *)
(* state after a table-created event, a service-started event, a connect   *)
(* event and a CCCD write of 0x0001 without response; the main loop keeps  *)
(* iterating                                                               *)
(***************************************************************************)
InitSubscribed ==
    /\ connection_established = TRUE
    /\ notifications_enabled = TRUE
    /\ ble_service_started = TRUE
    /\ gatt_handle_table = [i \in 0..(GATTS_NUM_HANDLE - 1) |-> 40 + i]
    /\ char_value_buffer = [i \in 0..(CHAR_VALUE_MAX_LEN - 1) |-> 0]
    /\ notify_conn_id = 1
    /\ notify_gatts_if = 3
    /\ previous_zone = ZONE_INVALID
    /\ position = 0
    /\ event_queue = <<>>
    /\ prev_button_pressed = FALSE
    /\ calls = <<>>
    /\ ret = "NONE"
    /\ peer = <<[gatts_if |-> 3, conn_id |-> 1]>>
    /\ runZone = ZONE_INVALID
    /\ runAttempts = 0
    /\ runFrames = 0
    /\ pc = "loop"
    /\ send_value = <<>>

NextSubscribed ==
    \/ \E b \in BOOLEAN, r \in StackRets : MainLoopPoll(b, r)
    \/ \E b \in BOOLEAN : MainLoopEvent(b)
    \/ \E d \in {-1, 1} : Rotate(d)
    \/ \E g \in GattsIfs, w \in WriteParams : ESP_GATTS_WRITE_EVT(g, w)
    \/ \E g \in GattsIfs, c \in ConnIds : ESP_GATTS_CONNECT_EVT(g, c)
    \/ ESP_GATTS_DISCONNECT_EVT

SpecSubscribed ==
    InitSubscribed /\ [][NextSubscribed]_vars /\ WF_vars(MainLoop)

(***************************************************************************)
(* Vocabulary of the properties                                            *)
(***************************************************************************)
Zones == {ZONE_GREEN, ZONE_YELLOW, ZONE_RED}

IsFrame(c) == c.api = "esp_ble_gatts_send_indicate"

\* the last step handed a frame to the stack
FrameSent == \E i \in 1..Len(calls) : IsFrame(calls[i])

Subscribed == connection_established /\ notifications_enabled
Connected == connection_established /\ ~notifications_enabled
Disconnected == ~connection_established

\* the step is a main-loop iteration that polls (the only steps that leave
\* ret other than "NONE")
Polls == ret' # "NONE" /\ \E b \in BOOLEAN, r \in StackRets : MainLoopPoll(b, r)

\* a step within WriteFrame is the write event w on interface g, that is
\* ESP_GATTS_WRITE_EVT(g, w) (a response goes out exactly when w asks for
\* one)
Writes(g, w) ==
    /\ w.need_rsp = (calls' # <<>>)
    /\ WriteEffect(g, w)

\* the frame codes of the GATT profile: Red=0x01, Green=0x02, Yellow=0x03
CodeOf(zone) ==
    CASE zone = ZONE_RED -> 1
      [] zone = ZONE_GREEN -> 2
      [] zone = ZONE_YELLOW -> 3

\* the zone bands: Green -5..5, Yellow 6..10 and -10..-6, Red beyond
ZoneOf(p) ==
    IF -5 <= p /\ p <= 5 THEN ZONE_GREEN
    ELSE IF (5 < p /\ p <= 10) \/ (-10 <= p /\ p < -5) THEN ZONE_YELLOW
    ELSE ZONE_RED

(***************************************************************************)
(* Properties                                                              *)
(***************************************************************************)
\* C1: a step hands a frame to the stack only if a connection is
\* established and notifications are enabled, before the step and after it;
\* a poll in Disconnected or Connected state transmits nothing.
C1_FrameOnlyWhenSubscribed ==
    [][/\ FrameSent' => (Subscribed /\ Subscribed')
       /\ (Polls /\ ~Subscribed) => ~FrameSent']_vars

\* a zone change polled while connected and not subscribed, with the service
\* started and the handles valid, was dropped
C1_Witness ==
    /\ ret = "ESP_ERR_INVALID_STATE"
    /\ Connected
    /\ ble_service_started
    /\ ~HandlesNotReady
    /\ ~FrameSent

\* C2: over the latest polls that all sampled the same zone, whatever
\* events came between them, at most one frame was transmitted.
C2_OneFramePerZoneRun == runFrames <= 1

\* a poll that found the zone unchanged, after one frame for that zone
C2_Witness ==
    /\ ret = "NO_CHANGE"
    /\ runFrames = 1
    /\ Subscribed

\* the writes of 0x0001, little-endian, in 2 bytes
SubscribeWrites == {w \in WriteParams : w.len = 2 /\ w.value = <<1, 0>>}

\* C3: with the service started, a connection established and valid
\* handles, a CCCD write of 0x0001 enables notifications, and the next
\* polled zone change hands the stack exactly one frame, of one byte, the
\* code of the new zone; it is the only frame for that zone.
C3_SubscribeThenOneFrame ==
    [][/\ (WriteFrame /\ connection_established)
          => \A g \in GattsIfs, w \in SubscribeWrites :
                (w.handle = gatt_handle_table[3] /\ Writes(g, w))
                => Subscribed'
       /\ ( /\ Polls
            /\ ble_service_started
            /\ Subscribed
            /\ ~HandlesNotReady
            /\ ZoneOf(position) # previous_zone )
          => /\ Len(calls') = 1
             /\ IsFrame(calls'[1])
             /\ calls'[1].len = 1
             /\ calls'[1].value = <<CodeOf(ZoneOf(position))>>
             /\ runFrames' = 1]_vars

\* the frame for a change to Yellow, the only one of its run
C3_Witness ==
    /\ FrameSent
    /\ calls[1].value = <<3>>
    /\ previous_zone = ZONE_YELLOW
    /\ runFrames = 1
    /\ Subscribed

\* a response of the given status is all the last step sent
Responded(cs, status) ==
    /\ Len(cs) = 1
    /\ cs[1].api = "esp_ble_gatts_send_response"
    /\ cs[1].status = status

NoSuccessResponse(cs) ==
    \A i \in 1..Len(cs) :
        cs[i].api = "esp_ble_gatts_send_response" => cs[i].status # "ESP_GATT_OK"

NoErrorResponse(cs) ==
    \A i \in 1..Len(cs) :
        cs[i].api = "esp_ble_gatts_send_response" => cs[i].status = "ESP_GATT_OK"

LongWrites == {w \in WriteParams : w.len > 20}
ShortWrites == {w \in WriteParams : w.len <= 20}

\* C4 as stated: every write longer than 20 bytes is answered with the
\* invalid-length status and changes nothing.
C4_TooLongAlwaysAnswered ==
    [][WriteFrame =>
         \A g \in GattsIfs, w \in LongWrites :
             Writes(g, w)
             => /\ Responded(calls', "ESP_GATT_INVALID_ATTR_LEN")
                /\ UNCHANGED <<tracker, gatt>>]_vars

\* C4, amended: a write longer than 20 bytes, to any handle, changes
\* nothing; it is answered with the invalid-length status if it asks for a
\* response and with nothing otherwise, and never with success.
C4_TooLongRejected ==
    [][WriteFrame =>
         \A g \in GattsIfs, w \in LongWrites :
             Writes(g, w)
             => /\ IF w.need_rsp
                   THEN Responded(calls', "ESP_GATT_INVALID_ATTR_LEN")
                   ELSE calls' = <<>>
                /\ NoSuccessResponse(calls')
                /\ UNCHANGED <<tracker, gatt>>]_vars

\* an over-long write was refused while the peer stayed subscribed
C4_Witness ==
    /\ Responded(calls, "ESP_GATT_INVALID_ATTR_LEN")
    /\ Subscribed
    /\ gatt_handle_table # ZeroTable

\* C5: a disconnect event clears the connection flag, the subscription
\* flag, the connection identifier and the interface reference and asks
\* for advertising to start; every frame is addressed to the identifier and
\* interface of the latest connect event, and once that connection is
\* subscribed the next polled zone change is transmitted.
C5_DisconnectThenCleanReconnect ==
    [][/\ ESP_GATTS_DISCONNECT_EVT
          => /\ ~connection_established'
             /\ ~notifications_enabled'
             /\ notify_conn_id' = 0
             /\ notify_gatts_if' = 0
             /\ Len(calls') = 1
             /\ calls'[1].api = "esp_ble_gap_start_advertising"
       /\ FrameSent'
          => /\ peer # <<>>
             /\ calls'[1].conn_id = peer[1].conn_id
             /\ calls'[1].gatts_if = peer[1].gatts_if
       /\ ( /\ Polls
            /\ ble_service_started
            /\ Subscribed
            /\ gatt_handle_table # ZeroTable
            /\ ZoneOf(position) # previous_zone )
          => FrameSent']_vars

\* a disconnect event has cleared a connection a frame had been sent on
C5_Witness ==
    /\ Len(calls) = 1
    /\ calls[1].api = "esp_ble_gap_start_advertising"
    /\ runFrames = 1
    /\ ~connection_established
    /\ ~notifications_enabled
    /\ notify_conn_id = 0
    /\ notify_gatts_if = 0

\* C6: a table-created event reporting a failure or a handle count other
\* than 4 requests no service start and leaves the handle map alone, and
\* while the handle map is unwritten no frame is transmitted.
C6_NoServiceNoFrames ==
    [][/\ \A st \in GattStatuses, n \in NumHandles, h \in HandleTables :
            ((st # "ESP_GATT_OK" \/ n # 4) /\ ESP_GATTS_CREAT_ATTR_TAB_EVT(st, n, h))
            => /\ calls' = <<>>
               /\ gatt_handle_table' = gatt_handle_table
       /\ gatt_handle_table' = ZeroTable => ~FrameSent']_vars

\* a zone change polled with a peer connected and the service flagged as
\* started, no table ever created: dropped
C6_Witness ==
    /\ gatt_handle_table = ZeroTable
    /\ ble_service_started
    /\ connection_established
    /\ ret = "ESP_ERR_INVALID_STATE"
    /\ ~FrameSent

\* C7: get_zone_for_position yields a zone for every position and it is the
\* zone of the bands: Green -5..5, Yellow 6..10 and -10..-6, Red beyond.
C7_ClassifyMatchesBands ==
    runZone # ZONE_INVALID
    => /\ runZone \in Zones
       /\ runZone = ZoneOf(position)
       /\ position \in {5, -5} => runZone = ZONE_GREEN
       /\ position \in {6, 10, -6, -10} => runZone = ZONE_YELLOW
       /\ position \in {11, -11} => runZone = ZONE_RED

\* position -10, the outer edge of the lower Yellow band, classified
C7_Witness == position = -10 /\ runZone = ZONE_YELLOW

\* the subscription flag after a write of at most 20 bytes
FlagAfterWrite(w) ==
    IF w.handle = gatt_handle_table[3] /\ w.len = 2
    THEN IF w.value = <<1, 0>> THEN TRUE
         ELSE IF w.value = <<0, 0>> THEN FALSE
         ELSE notifications_enabled
    ELSE notifications_enabled

\* C8 as stated: a write of at most 20 bytes is always acknowledged with
\* success; 0x0001 to the CCCD handle leaves the tracker Subscribed, 0x0000
\* leaves it Connected, anything else changes no state.
C8_WriteAlwaysAcknowledged ==
    [][WriteFrame =>
         \A g \in GattsIfs, w \in ShortWrites :
             Writes(g, w)
             => /\ Responded(calls', "ESP_GATT_OK")
                /\ IF w.handle = gatt_handle_table[3] /\ w.len = 2
                      /\ w.value = <<1, 0>>
                   THEN Subscribed'
                   ELSE IF w.handle = gatt_handle_table[3] /\ w.len = 2
                           /\ w.value = <<0, 0>>
                   THEN Connected'
                   ELSE UNCHANGED tracker
                /\ UNCHANGED <<connection_established, notify_conn_id,
                               notify_gatts_if, gatt>>]_vars

\* C8, amended: a write of at most 20 bytes sets the subscription flag if
\* it is 0x0001 (little-endian, 2 bytes) to the CCCD handle, clears it if it
\* is 0x0000 there, and changes no state otherwise; it is acknowledged with
\* success if it asks for a response, and never answered with an error.
C8_CccdWrite ==
    [][WriteFrame =>
         \A g \in GattsIfs, w \in ShortWrites :
             Writes(g, w)
             => /\ IF w.need_rsp THEN Responded(calls', "ESP_GATT_OK")
                               ELSE calls' = <<>>
                /\ NoErrorResponse(calls')
                /\ notifications_enabled' = FlagAfterWrite(w)
                /\ UNCHANGED <<connection_established, notify_conn_id,
                               notify_gatts_if, gatt>>]_vars

\* a write acknowledged with success has left the peer subscribed
C8_Witness ==
    /\ Responded(calls, "ESP_GATT_OK")
    /\ Subscribed
    /\ gatt_handle_table # ZeroTable

\* C9: a read request, for any handle and in any state, is answered with
\* success and the one byte 0x00, and changes neither the tracker, the
\* handle map nor previous_zone.
C9_ReadAnswersZero ==
    [][\A g \in GattsIfs, c \in ReqConnIds, t \in TransIds, h \in ReadHandles :
          ESP_GATTS_READ_EVT(g, c, t, h)
          => /\ Responded(calls', "ESP_GATT_OK")
             /\ Len(calls'[1].rsp) = 1
             /\ calls'[1].rsp[1].len = 1
             /\ calls'[1].rsp[1].value = <<0>>
             /\ UNCHANGED <<tracker, gatt_handle_table, previous_zone>>]_vars

\* a read answered while the peer is subscribed and a zone has been sent
C9_Witness ==
    /\ Responded(calls, "ESP_GATT_OK")
    /\ Len(calls[1].rsp) = 1
    /\ Subscribed
    /\ previous_zone \in Zones

\* C10: a poll that calls notify leaves previous_zone at the new zone
\* whatever the send returned, a poll in the zone of previous_zone neither
\* calls notify nor transmits, and over the latest polls that sampled one
\* zone notify was called at most once.
C10_EdgeDetectorIgnoresOutcome ==
    [][/\ (Polls /\ ret' # "NO_CHANGE") => previous_zone' = ZoneOf(position)
       /\ (Polls /\ ZoneOf(position) = previous_zone)
          => (calls' = <<>> /\ ret' = "NO_CHANGE")
       /\ runAttempts' <= 1]_vars

\* a zone change dropped as not ready is not sent again by a later poll in
\* that zone, though the peer has subscribed since
C10_Witness ==
    /\ ret = "NO_CHANGE"
    /\ runAttempts = 1
    /\ runFrames = 0
    /\ ble_service_started
    /\ Subscribed
    /\ ~HandlesNotReady

\* the step asked the stack to start advertising
StartRequested(cs) ==
    \E i \in 1..Len(cs) : cs[i].api = "esp_ble_gap_start_advertising"

\* C11: an advertising-data-set event that reports a failure requests no
\* advertising start, and a start is requested only by a data-set event
\* that reports success or by the disconnect handler.
C11_StartOnlyAfterDataAccepted ==
    [][/\ \A st \in BtStatuses :
            ( /\ st # "ESP_BT_STATUS_SUCCESS"
              /\ ESP_GAP_BLE_ADV_DATA_RAW_SET_COMPLETE_EVT(st) )
            => ~StartRequested(calls')
       /\ StartRequested(calls')
          => \/ ESP_GATTS_DISCONNECT_EVT
             \/ ESP_GAP_BLE_ADV_DATA_RAW_SET_COMPLETE_EVT("ESP_BT_STATUS_SUCCESS")]_vars

\* C12: a connect event arriving in Disconnected, Connected or Subscribed
\* state stores the identifier and interface of the event, issues one
\* connection-parameter-update request with latency 0 and leaves the tracker
\* Connected: connected and not subscribed.
C12_ConnectLeavesConnected ==
    [][\A g \in GattsIfs, c \in ConnIds :
          ( /\ notifications_enabled => connection_established
            /\ ESP_GATTS_CONNECT_EVT(g, c) )
          => /\ notify_conn_id' = c
             /\ notify_gatts_if' = g
             /\ Len(calls') = 1
             /\ calls'[1].api = "esp_ble_gap_update_conn_params"
             /\ calls'[1].params.latency = 0
             /\ Connected']_vars

\* C13: an event of a kind outside the dispatch table, in either handler,
\* changes no state variable (connection flag, subscription flag,
\* service-started flag, connection identifier, interface reference, handle
\* map, previous zone) and makes no stack request, so sends no response.
C13_UnknownEventsIgnored ==
    [][(GapDefault \/ GattsDefault)
          => /\ calls' = <<>>
             /\ UNCHANGED <<connection_established, notifications_enabled,
                            ble_service_started, notify_conn_id,
                            notify_gatts_if, gatt_handle_table,
                            previous_zone>>]_vars

\* a step without requests taken with a peer subscribed, the service
\* started, a table stored and a zone sent
C13_Witness ==
    /\ calls = <<>>
    /\ ret = "NONE"
    /\ Subscribed
    /\ ble_service_started
    /\ gatt_handle_table # ZeroTable
    /\ previous_zone \in Zones
    /\ runFrames = 1

\* the request to start the service whose declaration has handle h
StartServiceCall(h) == [api |-> "esp_ble_gatts_start_service", service_handle |-> h]

\* the step is a table-created event reporting success and 4 handles
TableCreated(h) == ESP_GATTS_CREAT_ATTR_TAB_EVT("ESP_GATT_OK", 4, h)

\* C14 as stated: the handle map is written at most once, by the first
\* successful table-created event with 4 handles, which requests service
\* start with the service-declaration handle; it is never modified
\* afterwards.
C14_HandleMapWrittenOnce ==
    [][gatt_handle_table' # gatt_handle_table
          => /\ gatt_handle_table = ZeroTable
             /\ \E h \in HandleTables :
                   /\ TableCreated(h)
                   /\ gatt_handle_table' = h
                   /\ calls' = <<StartServiceCall(h[0])>>]_vars

\* C14, amended: the handle map is written only by a successful
\* table-created event with 4 handles; each such event, the first or a later
\* one, stores its handles and requests service start with the
\* service-declaration handle it stored.
C14_HandleMapWrittenByTableCreated ==
    [][/\ gatt_handle_table' # gatt_handle_table
          => \E h \in HandleTables : TableCreated(h)
       /\ \A h \in HandleTables :
            TableCreated(h)
            => /\ gatt_handle_table' = h
               /\ calls' = <<StartServiceCall(h[0])>>]_vars

\* a table-created event stored its handles after a frame had been sent
\* with the handles of an earlier one
C14_Witness ==
    /\ Len(calls) = 1
    /\ calls[1] = StartServiceCall(gatt_handle_table[0])
    /\ gatt_handle_table # ZeroTable
    /\ runFrames = 1
    /\ Subscribed

\* the step is a main-loop iteration that takes an event off the queue
TakesEvent == event_queue # <<>> /\ \E b \in BOOLEAN : MainLoopEvent(b)

\* the step called send_ble_notification
Dispatched == ret' \notin {"NONE", "NO_CHANGE"}

\* C15 as stated, with the service started: the sample of an iteration,
\* taken off the event queue or read from the encoder, is classified and
\* compared with previous_zone, and a zone change on it calls notify in
\* that iteration.
C15_EverySampleDispatched ==
    [][/\ (TakesEvent /\ ble_service_started
              /\ ZoneOf(Head(event_queue)) # previous_zone)
          => (Dispatched /\ previous_zone' = ZoneOf(Head(event_queue)))
       /\ (Polls /\ ble_service_started /\ ZoneOf(position) # previous_zone)
          => (Dispatched /\ previous_zone' = ZoneOf(position))]_vars

\* C15, amended: an iteration that finds the queue empty classifies the
\* position it reads and, with the service started, a zone different from
\* previous_zone calls notify in that iteration and becomes previous_zone;
\* otherwise nothing is notified. An iteration that takes an event off the
\* queue neither compares it with previous_zone nor notifies.
C15_PolledSamplesDispatched ==
    [][/\ Polls
          => /\ runZone' = ZoneOf(position)
             /\ IF ble_service_started /\ ZoneOf(position) # previous_zone
                THEN Dispatched /\ previous_zone' = ZoneOf(position)
                ELSE ~Dispatched /\ calls' = <<>> /\ UNCHANGED previous_zone
       /\ TakesEvent
          => (~Dispatched /\ calls' = <<>> /\ UNCHANGED previous_zone)]_vars

\* the queue was emptied of a position in another zone than previous_zone,
\* with the service started and the peer subscribed, and nothing was sent
C15_Witness ==
    /\ event_queue = <<>>
    /\ position # 0
    /\ ble_service_started
    /\ Subscribed
    /\ ~HandlesNotReady
    /\ previous_zone \in Zones
    /\ ZoneOf(position) # previous_zone
    /\ calls = <<>>
    /\ ret = "NONE"

\* the one frame of the last step carries the code of zone z
FrameFor(cs, z) ==
    /\ Len(cs) = 1
    /\ IsFrame(cs[1])
    /\ cs[1].value = <<CodeOf(z)>>

\* C16: with the service started, the peer subscribed and the handles
\* valid, every poll that samples a zone other than previous_zone hands the
\* stack a frame for it, however close to the boundary: at 6 after Green the
\* frame is 0x03, at 5 after Yellow it is 0x02.
C16_NoHysteresis ==
    [][(Polls /\ ble_service_started /\ Subscribed /\ ~HandlesNotReady)
          => /\ ZoneOf(position) # previous_zone
                => FrameFor(calls', ZoneOf(position))
             /\ (position = 6 /\ previous_zone = ZONE_GREEN)
                => (calls'[1].value = <<3>> /\ previous_zone' = ZONE_YELLOW)
             /\ (position = 5 /\ previous_zone = ZONE_YELLOW)
                => (calls'[1].value = <<2>> /\ previous_zone' = ZONE_GREEN)]_vars

\* one detent past the Green boundary the frame 0x03 went out
C16_Witness ==
    /\ position = 6
    /\ FrameFor(calls, ZONE_YELLOW)
    /\ previous_zone = ZONE_YELLOW
    /\ ble_service_started
    /\ Subscribed

\* C17: a frame handed to the stack has length 1 and its byte is 0x01, 0x02
\* or 0x03, the code of the zone previous_zone holds when it is sent, never
\* 0x00; no poll gets the invalid-argument result of the length check.
C17_FrameIsOneZoneCode ==
    /\ FrameSent
       => /\ Len(calls) = 1
          /\ calls[1].len = 1
          /\ calls[1].len >= 1 /\ calls[1].len <= 20
          /\ Len(calls[1].value) = 1
          /\ calls[1].value[1] \in {1, 2, 3}
          /\ previous_zone \in Zones
          /\ calls[1].value = <<CodeOf(previous_zone)>>
    /\ ret # "ESP_ERR_INVALID_ARG"

\* the frame 0x01 was sent for Red
C17_Witness ==
    /\ FrameSent
    /\ calls[1].value = <<1>>
    /\ calls[1].len = 1
    /\ previous_zone = ZONE_RED

\* C18, its part on the connection: with stack events coming between the
\* checks of send_ble_notification and its transmit call, a frame handed to
\* the stack carries a non-zero interface reference and the identifier of
\* the connection established when it is handed over, never the cleared
\* pair (0, 0).
C18_FrameToLivePeerInterleaved ==
    FrameSent
    => /\ calls[1].gatts_if # 0
       /\ connection_established
       /\ peer # <<>>
       /\ calls[1].gatts_if = peer[1].gatts_if
       /\ calls[1].conn_id = peer[1].conn_id

HandlesValid == notify_gatts_if # 0 /\ gatt_handle_table[2] # 0

\* the service has started, the peer is subscribed, the handles are valid
\* and the position is in zone z
SettledIn(z) ==
    /\ ble_service_started
    /\ Subscribed
    /\ HandlesValid
    /\ ZoneOf(position) = z

\* C19: if the main loop keeps iterating and the encoder event queue is
\* empty from some point on, then whenever the position is in a zone other
\* than previous_zone with the service started, the peer subscribed and the
\* handles valid, a frame with the code of that zone is handed to the stack
\* later, unless the position leaves the zone or the peer, the service or
\* the handles stop being ready first.
C19_SettledZoneEventuallySent ==
    \A z \in Zones :
        <>[](event_queue = <<>>)
        => ((SettledIn(z) /\ previous_zone # z)
               ~> (FrameFor(calls, z) \/ ~SettledIn(z)))

\* the frame for Yellow, sent while the position rests in Yellow with the
\* queue empty
C19_Witness ==
    /\ SettledIn(ZONE_YELLOW)
    /\ event_queue = <<>>
    /\ FrameFor(calls, ZONE_YELLOW)
    /\ previous_zone = ZONE_YELLOW
    /\ runAttempts = 1

\* C20: after every step the subscription flag is set only if the
\* connection flag is, the identifier and the interface are 0 while no
\* connection is established, and the tracker becomes Subscribed only from
\* Connected.
C20_TrackerStates ==
    [][/\ notifications_enabled' => connection_established'
       /\ ~connection_established'
          => (notify_conn_id' = 0 /\ notify_gatts_if' = 0)
       /\ (Subscribed' /\ ~Subscribed) => Connected]_vars

\* C21: while no service-started event has been received a poll neither
\* calls notify nor changes previous_zone, which is still the invalid
\* startup value; the service-started flag, once set, stays set over every
\* step; and a poll that finds the flag set and previous_zone still invalid
\* calls notify whatever the position, sets previous_zone to the zone of the
\* position and hands at most one frame to the stack.
C21_ServiceStartedGating ==
    [][/\ ~ble_service_started' => previous_zone' = ZONE_INVALID
       /\ (Polls /\ ~ble_service_started)
          => /\ ret' = "NO_CHANGE"
             /\ calls' = <<>>
             /\ previous_zone' = previous_zone
       /\ ble_service_started => ble_service_started'
       /\ (Polls /\ ble_service_started /\ previous_zone = ZONE_INVALID)
          => /\ Dispatched
             /\ previous_zone' = ZoneOf(position)
             /\ Len(calls') <= 1]_vars

\* the encoder at rest in Green, polled with the service started and
\* nobody connected: counted as a zone change and dropped as not ready
C21_Witness ==
    /\ ble_service_started
    /\ position = 0
    /\ previous_zone = ZONE_GREEN
    /\ runZone = ZONE_GREEN
    /\ runAttempts = 1
    /\ ret = "ESP_ERR_INVALID_STATE"
    /\ peer = <<>>
    /\ gatt_handle_table = ZeroTable

\* a step of the main loop task: an iteration that takes an event or polls,
\* or either half of an iteration that sends
MainLoopStep ==
    \/ MainLoop
    \/ \E b \in BOOLEAN : MainLoopPollChecks(b)
    \/ \E b \in BOOLEAN, r \in StackRets : MainLoopTransmit(b, r)

\* C22: a step that changes previous_zone is not a step of a stack event
\* handler (GAP or GATT, any event), and a step that changes the connection
\* flag, the subscription flag, the connection identifier, the interface,
\* the service-started flag or the handle map is not a step of the main
\* loop.
C22_WriterSeparation ==
    [][/\ previous_zone' # previous_zone => ~StackEvent
       /\ <<tracker, ble_service_started, gatt_handle_table>>'
              # <<tracker, ble_service_started, gatt_handle_table>>
          => ~MainLoopStep]_vars

\* a frame for Yellow was handed to the stack, then the peer disconnected:
\* the main loop left the tracker to the handler, and the handler left
\* previous_zone at Yellow
C22_Witness ==
    /\ calls = <<StartAdvertisingCall>>
    /\ ~connection_established
    /\ ble_service_started
    /\ gatt_handle_table[2] # 0
    /\ previous_zone = ZONE_YELLOW
    /\ runZone = ZONE_YELLOW
    /\ runFrames = 1
====
